---- MODULE Spec2Model ----
(***************************************************************************)
(* Traffic-data ingestion and analytics of the AI Traffic Monitoring       *)
(* System: the Dashboard page (frontend/src/pages/Dashboard.jsx) and the   *)
(* AdminDashboard page (src/pages/Admin.jsx).                              *)
(*                                                                         *)
(* JavaScript values are tagged records (cells); averages produced by      *)
(* toFixed(2) are kept as integers in hundredths.                          *)
(***************************************************************************)
EXTENDS Integers, Sequences, FiniteSets, TLC

(* ----------------------------- bounds ---------------------------------- *)
MaxFileRows == 2      \* longest parsed file / pasted array
MaxOps      == 2      \* user-initiated operations in one session
MaxInFlight == 2      \* parses running at the same time
MaxGroups   == 4      \* routes handed to one simplePredictor call

(* ------------------------ JavaScript values ---------------------------- *)
Num(n)  == [t |-> "num",   n |-> n, s |-> ""]
Str(x)  == [t |-> "str",   n |-> 0, s |-> x]
Null    == [t |-> "null",  n |-> 0, s |-> ""]
Undef   == [t |-> "undef", n |-> 0, s |-> ""]
NaN     == [t |-> "nan",   n |-> 0, s |-> ""]

\* r[c]: a missing key reads as undefined
Get(r, c) == IF c \in DOMAIN r THEN r[c] ELSE Undef

\* Number(v)
Number(v) ==
  CASE v.t = "num"  -> v
    [] v.t = "nan"  -> NaN
    [] v.t = "null" -> Num(0)
    [] v.t = "str"  -> IF v.s = "" THEN Num(0) ELSE NaN
    [] OTHER        -> NaN

\* truthiness of a value
Truthy(v) ==
  CASE v.t = "num"  -> v.n # 0
    [] v.t = "str"  -> v.s # ""
    [] OTHER        -> FALSE

isNumeric(v) ==
  \/ v.t \in {"num", "nan"}
  \/ /\ Number(v).t # "nan"
     /\ ~(v.t = "str" /\ v.s = "")
     /\ v.t # "null"

\* the strings new Date() accepts, with the epoch milliseconds they denote
ParsedDates ==
  [x \in {"1970-01-01 00:00", "1970-01-01 00:01:30"} |->
     IF x = "1970-01-01 00:00" THEN 0 ELSE 90000]

\* tryParseDate: epoch milliseconds of the parsed date, or null
tryParseDate(v) ==
  IF ~Truthy(v) /\ ~(v.t = "num" /\ v.n = 0) THEN Null
  ELSE IF v.t = "num" THEN Num(v.n)
  ELSE IF v.t = "str" /\ v.s \in DOMAIN ParsedDates THEN Num(ParsedDates[v.s])
  ELSE Null

\* d.toISOString().slice(0, 16): the minute the instant falls in
MinuteKey(ms) == ms \div 60000

(* ----------------------------- strings --------------------------------- *)
LowerChar(c) ==
  CASE c = "R" -> "r" [] c = "L" -> "l" [] c = "T" -> "t" [] c = "V" -> "v"
    [] c = "D" -> "d" [] c = "C" -> "c" [] c = "S" -> "s" [] c = "F" -> "f"
    [] OTHER -> c

RECURSIVE toLowerCase(_)
toLowerCase(x) ==
  IF Len(x) = 0 THEN ""
  ELSE LowerChar(SubSeq(x, 1, 1)) \o toLowerCase(SubSeq(x, 2, Len(x)))

\* hay.includes(needle)
includes(hay, needle) ==
  \E i \in 1..(Len(hay) - Len(needle) + 1) :
     SubSeq(hay, i, i + Len(needle) - 1) = needle

Digits == <<"0", "1", "2", "3", "4", "5", "6", "7", "8", "9">>
digitVal(c) == IF \E d \in 1..10 : Digits[d] = c
               THEN (CHOOSE d \in 1..10 : Digits[d] = c) - 1 ELSE -1

\* String(n) of a non-negative integer
RECURSIVE natString(_)
natString(n) ==
  IF n < 10 THEN Digits[n + 1] ELSE natString(n \div 10) \o Digits[(n % 10) + 1]

\* String(v) of a number or string
String(v) ==
  CASE v.t = "str" -> v.s
    [] v.t = "num" -> IF v.n < 0 THEN "-" \o natString(-v.n) ELSE natString(v.n)
    [] v.t = "nan" -> "NaN"

RECURSIVE digitsValue(_)
digitsValue(x) ==
  IF Len(x) = 0 THEN 0
  ELSE 10 * digitsValue(SubSeq(x, 1, Len(x) - 1)) + digitVal(SubSeq(x, Len(x), Len(x)))

\* an object key that is an array index: canonical digits (below 2^32 - 1;
\* here up to nine digits, which is every numeric key of the inputs)
isArrayIndex(x) ==
  /\ Len(x) > 0 /\ Len(x) <= 9
  /\ \A i \in 1..Len(x) : digitVal(SubSeq(x, i, i)) >= 0
  /\ (Len(x) = 1 \/ SubSeq(x, 1, 1) # "0")

\* the characters of the inputs in code-unit order
CharOrder == " -.0123456789:ABCDEFGHIJKLMNOPQRSTUVWXYZabcdefghijklmnopqrstuvwxyz"
charCode(c) == CHOOSE i \in 1..Len(CharOrder) : SubSeq(CharOrder, i, i) = c

\* a < b of two strings (the default order of Array.prototype.sort)
strLess(a, b) ==
  \E k \in 1..(Len(a) + 1) :
     /\ k <= Len(b)
     /\ SubSeq(a, 1, k - 1) = SubSeq(b, 1, k - 1)
     /\ (k = Len(a) + 1
          \/ charCode(SubSeq(a, k, k)) < charCode(SubSeq(b, k, k)))

(* ------------------------------ arrays --------------------------------- *)
\* arr.slice(0, n)
sliceTo(arr, n) == SubSeq(arr, 1, IF Len(arr) < n THEN Len(arr) ELSE n)

\* arr.slice(-n)
sliceLast(arr, n) ==
  SubSeq(arr, (IF Len(arr) > n THEN Len(arr) - n + 1 ELSE 1), Len(arr))

\* Array.prototype.sort with a consistent comparator: a stable sort.
\* Before(a, b) holds when the comparator is negative for (a, b).
sort(arr, Before(_, _)) ==
  LET pos(i) == 1 + Cardinality({j \in DOMAIN arr :
                      \/ Before(arr[j], arr[i])
                      \/ (~Before(arr[i], arr[j]) /\ j < i)})
  IN  [k \in DOMAIN arr |-> arr[CHOOSE i \in DOMAIN arr : pos(i) = k]]

\* +(sum / count).toFixed(2), in hundredths (ties away from zero)
toFixed2(sum, count) ==
  IF sum >= 0 THEN (200 * sum + count) \div (2 * count)
  ELSE -((200 * (-sum) + count) \div (2 * count))

(* --------------------- Dashboard: pure computations -------------------- *)
TopRoutesMax == 10    \* top routes kept for the bar chart
RecommendN   == 3     \* routes recommended

\* r[routeCol] ?? "Unknown", as the object key it is used for
RouteKey(v) ==
  IF v.t \in {"null", "undef"} THEN "Unknown" ELSE String(v)

\* Object.keys(obj) of an object whose string keys are listed in insertion
\* order: array-index keys first, ascending, then the others as inserted
objectKeys(acc) ==
  LET first(a, b) ==
        /\ isArrayIndex(a.key)
        /\ (isArrayIndex(b.key) => digitsValue(a.key) < digitsValue(b.key))
  IN  sort(acc, first)

\* isNumeric(x) ? Number(x) : null
numericOrNull(x) == IF isNumeric(x) THEN Number(x) ELSE Null

\* one forEach step over a {key: {sum, count}} object kept in insertion order
addTo(acc, key, v) ==
  LET acc1 == IF \E i \in DOMAIN acc : acc[i].key = key THEN acc
              ELSE Append(acc, [key |-> key, sum |-> 0, count |-> 0])
  IN  [i \in DOMAIN acc1 |->
         IF acc1[i].key = key /\ v.t = "num"
         THEN [acc1[i] EXCEPT !.sum = @ + v.n, !.count = @ + 1]
         ELSE acc1[i]]

RECURSIVE byRoute(_, _, _, _)
byRoute(rs, routeCol, valueCol, acc) ==
  IF rs = <<>> THEN acc
  ELSE byRoute(Tail(rs), routeCol, valueCol,
               addTo(acc, RouteKey(Get(Head(rs), routeCol)),
                     numericOrNull(Get(Head(rs), valueCol))))

\* avg: count > 0 ? +(sum / count).toFixed(2) : null
statsAvg(b) ==
  IF b.count > 0 THEN [num |-> TRUE, v |-> toFixed2(b.sum, b.count)]
  ELSE [num |-> FALSE, v |-> 0]

stats(rs, routeCol, valueCol) ==
  LET br == objectKeys(byRoute(rs, routeCol, valueCol, <<>>))
  IN  [i \in DOMAIN br |->
         [route |-> br[i].key, avg |-> statsAvg(br[i]), count |-> br[i].count]]

hasAvg(g) == g.avg.num

\* the defined averages, sorted ascending
sortedAvgs(groups) ==
  LET avgs == SelectSeq(groups, hasAvg)
      asc(a, b) == a.avg.v < b.avg.v
      srt == sort(avgs, asc)
  IN  [i \in DOMAIN srt |-> srt[i].avg.v]

quartile(sorted, num, den) == sorted[((Len(sorted) * num) \div den) + 1]

\* predictionOf with the Light test ahead of the Heavy test
predictionOf_lightFirst(g, q1, q3) ==
  IF ~g.avg.num THEN "NoData"
  ELSE IF g.avg.v <= q1 THEN "Light"
  ELSE IF g.avg.v >= q3 THEN "Heavy"
  ELSE "Moderate"

\* predictionOf with Heavy only strictly above Q3
predictionOf_strictHeavy(g, q1, q3) ==
  IF ~g.avg.num THEN "NoData"
  ELSE IF g.avg.v > q3 THEN "Heavy"
  ELSE IF g.avg.v <= q1 THEN "Light"
  ELSE "Moderate"

\* predictionOf with the Heavy and Light labels exchanged
predictionOf_swapped(g, q1, q3) ==
  IF ~g.avg.num THEN "NoData"
  ELSE IF g.avg.v >= q3 THEN "Light"
  ELSE IF g.avg.v <= q1 THEN "Heavy"
  ELSE "Moderate"

predictionOf(g, q1, q3) ==
  IF ~g.avg.num THEN "NoData"
  ELSE IF g.avg.v >= q3 THEN "Heavy"
  ELSE IF g.avg.v <= q1 THEN "Light"
  ELSE "Moderate"

simplePredictor(groups) ==
  LET sorted == sortedAvgs(groups)
  IN  IF Len(sorted) = 0
      THEN [i \in DOMAIN groups |->
              [route |-> groups[i].route, avg |-> groups[i].avg,
               count |-> groups[i].count, prediction |-> "Unknown"]]
      ELSE LET q1 == quartile(sorted, 1, 4)
               q3 == quartile(sorted, 3, 4)
           IN  [i \in DOMAIN groups |->
                  [route |-> groups[i].route, avg |-> groups[i].avg,
                   count |-> groups[i].count,
                   prediction |-> predictionOf(groups[i], q1, q3)]]

\* stats.filter(numeric avg).sort((a, b) => b.avg - a.avg).slice(0, 10)
topOf(st) ==
  LET desc(a, b) == b.avg.v < a.avg.v
  IN  sliceTo(sort(SelectSeq(st, hasAvg), desc), TopRoutesMax)

predGroupsOf(preds) ==
  LET cnt(k) == Cardinality({i \in DOMAIN preds : preds[i].prediction = k})
  IN  << [name |-> "Heavy",    count |-> cnt("Heavy")],
         [name |-> "Moderate", count |-> cnt("Moderate")],
         [name |-> "Light",    count |-> cnt("Light")] >>

\* PredictionsPanel: topRoutes.slice(-3).map(r => r.route).slice(0, 3)
recommended(top) ==
  LET last == sliceLast(top, RecommendN)
  IN  sliceTo([i \in DOMAIN last |-> last[i].route], RecommendN)

RECURSIVE byDate(_, _, _, _)
byDate(rs, timeCol, valueCol, acc) ==
  IF rs = <<>> THEN acc
  ELSE LET d == tryParseDate(Get(Head(rs), timeCol))
       IN  byDate(Tail(rs), timeCol, valueCol,
                  IF d.t = "null" THEN acc
                  ELSE addTo(acc, MinuteKey(d.n),
                             numericOrNull(Get(Head(rs), valueCol))))

\* Object.keys(byDate).sort().map(k => ({date, value}))
seriesData(rs, timeCol, valueCol) ==
  LET bd == byDate(rs, timeCol, valueCol, <<>>)
      asc(a, b) == a.key < b.key
      srt == sort(bd, asc)
  IN  [i \in DOMAIN srt |->
         [date |-> srt[i].key,
          value |-> toFixed2(srt[i].sum,
                             IF srt[i].count > 1 THEN srt[i].count ELSE 1)]]

MarkerMax == 300     \* rows MapView looks at

\* hasGeo of MapView
hasGeo(rs, latCol, lngCol) ==
  /\ latCol # "" /\ lngCol # ""
  /\ \E i \in DOMAIN rs : isNumeric(Get(rs[i], latCol)) /\ isNumeric(Get(rs[i], lngCol))

\* isFinite(x) of a number value
isFinite(v) == v.t = "num"

\* the markers MapView renders for rows: the index of the row and the position
\* (without dataset markers it shows two fixed demo markers, which belong to no row)
markers(rs, latCol, lngCol) ==
  IF hasGeo(rs, latCol, lngCol)
  THEN LET shown == sliceTo(rs, MarkerMax)
           lat(i) == Number(Get(shown[i], latCol))
           lng(i) == Number(Get(shown[i], lngCol))
       IN  {[row |-> i, lat |-> lat(i).n, lng |-> lng(i).n] :
              i \in {k \in DOMAIN shown : isFinite(lat(k)) /\ isFinite(lng(k))}}
  ELSE {}

(* ------------------------------ inputs --------------------------------- *)
Range(f) == {f[i] : i \in DOMAIN f}
SeqsUpTo(S, n) == UNION {[1..k -> S] : k \in 0..n}

RouteCells == {Str("R1"), Str("R2")}
ValueCells == {Num(10), Num(30), Str("n/a")}
TimeCells  == {Str("1970-01-01 00:01:30")}

\* header rows of the uploaded files
DashFields == { <<"Route", "congestion", "time">>, <<"route", "value">> }

CellsOf(c) ==
  IF includes(toLowerCase(c), "route") THEN RouteCells
  ELSE IF c = "time" THEN TimeCells
  ELSE ValueCells

RowsOver(F) ==
  {r \in [Range(F) -> RouteCells \cup ValueCells \cup TimeCells] :
     \A c \in Range(F) : r[c] \in CellsOf(c)}

\* what Papa.parse delivers for a file: res.data and res.meta.fields
Files ==
  UNION {{[fields |-> F, data |-> d] : d \in SeqsUpTo(RowsOver(F), MaxFileRows)} :
         F \in DashFields}

ErrorMessages == {"NotReadableError"}

(* ------------------------------- state --------------------------------- *)
VARIABLES
  rows, columns, selectedCols,                           \* Dashboard dataset
  statsByRoute, series, predictions, predGroups, topRoutes, \* Dashboard analytics
  notifications, parsing,                                \* Dashboard / FileUploader UI
  parses,          \* Papa.parse calls of the Dashboard still running
  effectPending,   \* the data-computation effect is scheduled
  ops,             \* user operations so far
  latest,          \* the file ingestion started last
  lastBatch,       \* the batch handed to onParsed last (rows, fields), and the rows it replaced
  adminRows, notif, csvParsing, aiChat, audit,           \* AdminDashboard
  csvJobs,         \* Papa.parse calls of AdminDashboard still running
  adminBatch,      \* the last completed import: rows stored, rows given, and the batch before
  lastOp,          \* the operation or callback that ran last
  groups, classified, pc,  \* one call of simplePredictor: argument, result, position
  adminRuns,       \* AdminDashboard rows of large imports, as runs of records of one import
  dashCount,       \* number of rows of a large file held by the Dashboard
  downloads        \* the files exportProcessedJSON has written, oldest first

dashVars == <<rows, columns, selectedCols, statsByRoute, series, predictions,
              predGroups, topRoutes, notifications, parsing, parses,
              effectPending, latest, lastBatch>>
adminVars == <<adminRows, notif, csvParsing, aiChat, audit, csvJobs, adminBatch>>
callVars == <<groups, classified, pc>>
sizeVars == <<adminRuns, dashCount>>
vars == <<dashVars, adminVars, ops, lastOp, callVars, sizeVars, downloads>>

NotifMax == 6
notify(n, m) == sliceTo(<<m>> \o n, NotifMax)

NoCols == [routeCol |-> "", timeCol |-> "", valueCol |-> "", latCol |-> "", lngCol |-> ""]

\* both pages freshly mounted, nothing stored
InitPages ==
  /\ rows = <<>> /\ columns = <<>> /\ selectedCols = NoCols
  /\ statsByRoute = <<>> /\ series = <<>> /\ predictions = <<>>
  /\ predGroups = <<>> /\ topRoutes = <<>>
  /\ notifications = <<>> /\ parsing = FALSE
  /\ parses = {} /\ effectPending = FALSE
  /\ ops = 0
  /\ latest = [id |-> 0, data |-> <<>>, done |-> FALSE, cleared |-> FALSE]
  /\ lastBatch = [n |-> 0, data |-> <<>>, prev |-> <<>>, fields |-> <<>>]
  /\ adminRows = <<>> /\ notif = <<>> /\ csvParsing = FALSE
  /\ aiChat = <<[who |-> "system", advice |-> <<>>]>>
  /\ audit = <<>> /\ csvJobs = {}
  /\ adminBatch = [n |-> 0, data |-> <<>>, prev |-> <<>>, input |-> <<>>]
  /\ lastOp = "init"

NoLargeData == adminRuns = <<>> /\ dashCount = 0 /\ downloads = <<>>

Init == InitPages /\ groups = <<>> /\ classified = <<>> /\ pc = "idle" /\ NoLargeData

(* ------------------------- Dashboard operations ------------------------ *)
\* find(keys) of onParsed: the first field whose lower-cased name includes a key
find(metaFields, keys) ==
  LET hit(i) == \E k \in Range(keys) : includes(toLowerCase(metaFields[i]), k)
  IN  IF \E i \in DOMAIN metaFields : hit(i)
      THEN metaFields[CHOOSE i \in DOMAIN metaFields :
                        hit(i) /\ \A j \in 1..(i - 1) : ~hit(j)]
      ELSE ""

autoDetect(metaFields) ==
  [routeCol |-> find(metaFields, <<"route", "road", "segment", "link">>),
   timeCol  |-> find(metaFields, <<"timestamp", "time", "date", "datetime">>),
   valueCol |-> find(metaFields, <<"congestion", "count", "flow", "speed", "vehicles">>),
   latCol   |-> find(metaFields, <<"lat", "latitude">>),
   lngCol   |-> find(metaFields, <<"lon", "lng", "longitude">>)]

\* onParsed without the auto-detection of the mapping
onParsed_keepsMapping(data, metaFields, queued) ==
  /\ rows' = data
  /\ columns' = metaFields
  /\ selectedCols' = selectedCols
  /\ notifications' = notify(queued, [msg |-> "Loaded rows", n |-> Len(data)])
  /\ effectPending' = TRUE
  /\ lastBatch' = [n |-> lastBatch.n + 1, data |-> data, prev |-> rows,
                   fields |-> metaFields]

\* onParsed(data, metaFields), with the notifications already queued before it
onParsed(data, metaFields, queued) ==
  /\ rows' = data
  /\ columns' = metaFields
  /\ selectedCols' = autoDetect(metaFields)
  /\ notifications' = notify(queued, [msg |-> "Loaded rows", n |-> Len(data)])
  /\ effectPending' = TRUE
  /\ lastBatch' = [n |-> lastBatch.n + 1, data |-> data, prev |-> rows,
                   fields |-> metaFields]

handleFile(f) ==
  /\ UNCHANGED <<adminVars, callVars, sizeVars, downloads>>
  /\ ~effectPending /\ ops < MaxOps /\ Cardinality(parses) < MaxInFlight
  /\ ops' = ops + 1
  /\ parsing' = TRUE
  /\ notifications' = notify(notifications, [msg |-> "Parsing", n |-> 0])
  /\ parses' = parses \cup {[id |-> ops + 1, file |-> f]}
  /\ latest' = [id |-> ops + 1, data |-> f.data, done |-> FALSE, cleared |-> FALSE]
  /\ lastOp' = "handleFile"
  /\ UNCHANGED <<rows, columns, selectedCols, statsByRoute, series, predictions,
                 predGroups, topRoutes, effectPending, lastBatch>>

\* the complete callback of handleFile
parseComplete(j) ==
  /\ UNCHANGED <<adminVars, callVars, sizeVars, downloads>>
  /\ ~effectPending /\ j \in parses
  /\ parses' = parses \ {j}
  /\ parsing' = FALSE
  /\ onParsed(j.file.data, j.file.fields,
              notify(notifications, [msg |-> "Parsed rows", n |-> Len(j.file.data)]))
  /\ latest' = IF j.id = latest.id THEN [latest EXCEPT !.done = TRUE] ELSE latest
  /\ lastOp' = "parseComplete"
  /\ UNCHANGED <<statsByRoute, series, predictions, predGroups, topRoutes, ops>>

\* parseError dropping the active dataset
parseError_dropsRows(j, message) ==
  /\ UNCHANGED <<adminVars, callVars, sizeVars, downloads>>
  /\ ~effectPending /\ j \in parses
  /\ parses' = parses \ {j}
  /\ parsing' = FALSE
  /\ notifications' = notify(notifications, [msg |-> "Parse error: " \o message, n |-> 0])
  /\ lastOp' = "parseError"
  /\ rows' = <<>>
  /\ UNCHANGED <<columns, selectedCols, statsByRoute, series, predictions,
                 predGroups, topRoutes, effectPending, ops, latest, lastBatch>>

\* the error callback of handleFile
parseError(j, message) ==
  /\ UNCHANGED <<adminVars, callVars, sizeVars, downloads>>
  /\ ~effectPending /\ j \in parses
  /\ parses' = parses \ {j}
  /\ parsing' = FALSE
  /\ notifications' = notify(notifications, [msg |-> "Parse error: " \o message, n |-> 0])
  /\ lastOp' = "parseError"
  /\ UNCHANGED <<rows, columns, selectedCols, statsByRoute, series, predictions,
                 predGroups, topRoutes, effectPending, ops, latest, lastBatch>>

\* the Clear button of FileUploader
clearFile ==
  /\ UNCHANGED <<adminVars, callVars, sizeVars, downloads>>
  /\ ~effectPending /\ ops < MaxOps
  /\ ops' = ops + 1
  /\ onParsed(<<>>, <<>>, notify(notifications, [msg |-> "Cleared file", n |-> 0]))
  /\ latest' = [latest EXCEPT !.cleared = TRUE]
  /\ lastOp' = "clearFile"
  /\ UNCHANGED <<statsByRoute, series, predictions, predGroups, topRoutes,
                 parsing, parses>>

numericCols == SelectSeq(columns, LAMBDA c : \E i \in DOMAIN rows : isNumeric(Get(rows[i], c)))
geoCols == SelectSeq(columns, LAMBDA c : \/ includes(toLowerCase(c), "lat")
                                         \/ includes(toLowerCase(c), "lon")
                                         \/ includes(toLowerCase(c), "lng"))

\* the options of the DataInspector select for mapping entry k
optionsOf(k) ==
  {""} \cup Range(CASE k \in {"routeCol", "timeCol"} -> columns
                    [] k = "valueCol" -> numericCols
                    [] OTHER -> geoCols)

\* DataInspector onSelect(k, v)
onSelect(k, v) ==
  /\ UNCHANGED <<adminVars, callVars, sizeVars, downloads>>
  /\ ~effectPending /\ ops < MaxOps
  /\ v \in optionsOf(k)
  /\ ops' = ops + 1
  /\ selectedCols' = [selectedCols EXCEPT ![k] = v]
  /\ lastOp' = "onSelect"
  /\ effectPending' = TRUE
  /\ UNCHANGED <<rows, columns, statsByRoute, series, predictions, predGroups,
                 topRoutes, notifications, parsing, parses, latest, lastBatch>>

\* routeEffect leaving the top routes alone when there is nothing to compute
routeEffect_keepsTop ==
  IF Len(rows) = 0 \/ selectedCols.routeCol = "" \/ selectedCols.valueCol = ""
  THEN /\ statsByRoute' = <<>>
       /\ predictions' = <<>>
       /\ UNCHANGED <<topRoutes, predGroups>>
  ELSE LET st == stats(rows, selectedCols.routeCol, selectedCols.valueCol)
           preds == simplePredictor(st)
       IN  /\ statsByRoute' = st
           /\ predictions' = preds
           /\ topRoutes' = topOf(st)
           /\ predGroups' = predGroupsOf(preds)

\* the data-computation effect, first part: stats by route, predictions,
\* top routes and prediction groups
routeEffect ==
  IF Len(rows) = 0 \/ selectedCols.routeCol = "" \/ selectedCols.valueCol = ""
  THEN /\ statsByRoute' = <<>>
       /\ predictions' = <<>>
       /\ topRoutes' = <<>>
       /\ UNCHANGED predGroups
  ELSE LET st == stats(rows, selectedCols.routeCol, selectedCols.valueCol)
           preds == simplePredictor(st)
       IN  /\ statsByRoute' = st
           /\ predictions' = preds
           /\ topRoutes' = topOf(st)
           /\ predGroups' = predGroupsOf(preds)

\* the data-computation effect, second part: the time series
seriesEffect ==
  IF Len(rows) = 0 \/ selectedCols.timeCol = "" \/ selectedCols.valueCol = ""
  THEN series' = <<>>
  ELSE series' = seriesData(rows, selectedCols.timeCol, selectedCols.valueCol)

\* the data-computation effect, run after a render that changed rows or selectedCols
dataEffect ==
  /\ UNCHANGED <<adminVars, callVars, sizeVars, downloads>>
  /\ effectPending
  /\ effectPending' = FALSE
  /\ lastOp' = "dataEffect"
  /\ routeEffect
  /\ seriesEffect
  /\ UNCHANGED <<rows, columns, selectedCols, notifications, parsing, parses,
                 ops, latest, lastBatch>>

MappingKeys == {"routeCol", "timeCol", "valueCol", "latCol", "lngCol"}

(* ----------------------- AdminDashboard: inputs ------------------------ *)
AdminFields == <<"route", "value">>

\* what Papa.parse delivers for an uploaded CSV, and the arrays pasted as JSON
AdminData == SeqsUpTo(RowsOver(AdminFields), MaxFileRows)

\* the pasted text, by what JSON.parse makes of it
JsonTexts ==
  {[kind |-> "invalid", value |-> <<>>], [kind |-> "object", value |-> <<>>]}
    \cup {[kind |-> "array", value |-> d] : d \in AdminData}

\* new Date().toISOString() at the moment of the call
Clock == {"1970-01-01T00:02:00.000Z"}

(* -------------------- AdminDashboard: computations --------------------- *)
RowCap   == 200000
AuditMax == 1000

\* a || b || ... || last
RECURSIVE orChain(_, _)
orChain(vals, last) ==
  IF vals = <<>> THEN last
  ELSE IF Truthy(Head(vals)) THEN Head(vals) ELSE orChain(Tail(vals), last)

\* a ?? b ?? ... (undefined when every operand is null or undefined)
RECURSIVE nullishChain(_)
nullishChain(vals) ==
  IF Len(vals) = 1 THEN Head(vals)
  ELSE IF Head(vals).t \in {"null", "undef"} THEN nullishChain(Tail(vals))
  ELSE Head(vals)

\* Number(x) || null
numberOrNull(x) == IF Truthy(Number(x)) THEN Number(x) ELSE Null

\* the record importCSV builds from a parsed row
normalize(o, now) ==
  [k \in {"route", "timestamp", "value", "lat", "lng", "raw"} |->
    CASE k = "route" ->
           orChain(<<Get(o, "route"), Get(o, "Road"), Get(o, "link"),
                     Get(o, "segment"), Get(o, "road")>>, Str("Unknown"))
      [] k = "timestamp" ->
           orChain(<<Get(o, "timestamp"), Get(o, "time"), Get(o, "date"),
                     Get(o, "datetime")>>, Str(now))
      [] k = "value" ->
           numberOrNull(nullishChain(<<Get(o, "value"), Get(o, "congestion"),
                     Get(o, "count"), Get(o, "flow"), Get(o, "vehicles")>>))
      [] k = "lat" ->
           numberOrNull(orChain(<<Get(o, "lat"), Get(o, "latitude")>>,
                                Get(o, "start_lat")))
      [] k = "lng" ->
           numberOrNull(orChain(<<Get(o, "lng"), Get(o, "longitude")>>,
                                Get(o, "start_lng")))
      [] k = "raw" -> [t |-> "obj", n |-> 0, s |-> "", o |-> o]]

normalized(parsed, now) == [i \in DOMAIN parsed |-> normalize(parsed[i], now)]

\* [...batch, ...prev].slice(0, 200000)
prepend(batch, prev) == sliceTo(batch \o prev, RowCap)

\* r.route || "Unknown", as an object key
adminRouteKey(r) == String(orChain(<<Get(r, "route")>>, Str("Unknown")))

\* byRoute of recommendRoute: v = Number(r.value), counted unless NaN
RECURSIVE recByRoute(_, _)
recByRoute(rs, acc) ==
  IF rs = <<>> THEN acc
  ELSE recByRoute(Tail(rs), addTo(acc, adminRouteKey(Head(rs)),
                                  Number(Get(Head(rs), "value"))))

\* routeAvgs of recommendRoute: avg = count ? sum / count : Infinity
routeAvgs(rs) ==
  LET br == objectKeys(recByRoute(rs, <<>>))
  IN  [i \in DOMAIN br |->
         [route |-> br[i].key, inf |-> br[i].count = 0,
          sum |-> br[i].sum, count |-> br[i].count]]

\* a.avg - b.avg < 0
avgLess(a, b) ==
  /\ ~a.inf
  /\ (b.inf \/ a.sum * b.count < b.sum * a.count)

\* Math.round(r.avg || 0)
estimate(a) ==
  IF a.inf THEN [inf |-> TRUE, v |-> 0]
  ELSE [inf |-> FALSE, v |-> (2 * a.sum + a.count) \div (2 * a.count)]

\* suggestions of recommendRoute
suggestions(rs) ==
  LET top == sliceTo(sort(routeAvgs(rs), avgLess), RecommendN)
  IN  [i \in DOMAIN top |-> [route |-> top[i].route, est |-> estimate(top[i])]]

\* byRoute of the stats memo: v = Number(r.value || 0), counted unless NaN
RECURSIVE statsByRouteAdmin(_, _)
statsByRouteAdmin(rs, acc) ==
  IF rs = <<>> THEN acc
  ELSE statsByRouteAdmin(Tail(rs),
         addTo(acc, adminRouteKey(Head(rs)),
               Number(orChain(<<Get(Head(rs), "value")>>, Num(0)))))

\* stats.routeStats: avg = count ? +(sum / count).toFixed(2) : 0
routeStats(rs) ==
  LET br == objectKeys(statsByRouteAdmin(rs, <<>>))
  IN  [i \in DOMAIN br |->
         [route |-> br[i].key,
          avg |-> IF br[i].count > 0 THEN toFixed2(br[i].sum, br[i].count) ELSE 0]]

\* r.timestamp ? String(r.timestamp).slice(0, 10) : null
dateKey(r) ==
  LET ts == Get(r, "timestamp")
  IN  IF Truthy(ts) THEN Str(sliceTo(String(ts), 10)) ELSE Null

\* one forEach step on byDate of the stats memo: sum += v; count += 1
addDate(acc, key, v) ==
  LET acc1 == IF \E i \in DOMAIN acc : acc[i].key = key THEN acc
              ELSE Append(acc, [key |-> key, sum |-> 0, count |-> 0, nan |-> FALSE])
  IN  [i \in DOMAIN acc1 |->
         IF acc1[i].key # key THEN acc1[i]
         ELSE IF v.t = "num"
              THEN [acc1[i] EXCEPT !.sum = @ + v.n, !.count = @ + 1]
              ELSE [acc1[i] EXCEPT !.nan = TRUE, !.count = @ + 1]]

\* byDate of the stats memo
RECURSIVE adminByDate(_, _)
adminByDate(rs, acc) ==
  IF rs = <<>> THEN acc
  ELSE LET d == dateKey(Head(rs))
           v == Number(orChain(<<Get(Head(rs), "value")>>, Num(0)))
       IN  adminByDate(Tail(rs), IF d.t = "null" THEN acc ELSE addDate(acc, d.s, v))

\* stats.dateSeries: Object.keys(byDate).sort().map(d => ({date, avg}))
dateSeries(rs) ==
  LET bd == adminByDate(rs, <<>>)
      asc(a, b) == strLess(a.key, b.key)
      srt == sort(bd, asc)
  IN  [i \in DOMAIN srt |->
         [date |-> srt[i].key,
          avg |-> IF srt[i].nan THEN NaN ELSE Num(toFixed2(srt[i].sum, srt[i].count))]]

(* ---------------------- AdminDashboard operations ---------------------- *)
pushAudit(a, action) == sliceTo(<<action>> \o a, AuditMax)

importCSV(data) ==
  /\ UNCHANGED <<dashVars, callVars, sizeVars, downloads>>
  /\ ops < MaxOps /\ Cardinality(csvJobs) < MaxInFlight
  /\ ops' = ops + 1
  /\ csvParsing' = TRUE
  /\ csvJobs' = csvJobs \cup {[id |-> ops + 1, data |-> data]}
  /\ lastOp' = "importCSV"
  /\ UNCHANGED <<adminRows, notif, aiChat, audit, adminBatch>>

\* the complete callback of importCSV
csvComplete(j, now) ==
  /\ UNCHANGED <<dashVars, callVars, sizeVars, downloads>>
  /\ j \in csvJobs
  /\ csvJobs' = csvJobs \ {j}
  /\ adminRows' = prepend(normalized(j.data, now), adminRows)
  /\ csvParsing' = FALSE
  /\ notif' = <<[msg |-> "Imported rows", n |-> Len(j.data)]>> \o notif
  /\ audit' = pushAudit(audit, "Imported CSV")
  /\ adminBatch' = [n |-> adminBatch.n + 1, data |-> normalized(j.data, now),
                    prev |-> adminBatch.data, input |-> j.data]
  /\ lastOp' = "csvComplete"
  /\ UNCHANGED <<aiChat, ops>>

\* the error callback of importCSV
csvError(j, message) ==
  /\ UNCHANGED <<dashVars, callVars, sizeVars, downloads>>
  /\ j \in csvJobs
  /\ csvJobs' = csvJobs \ {j}
  /\ csvParsing' = FALSE
  /\ notif' = <<[msg |-> "CSV parse error: " \o message, n |-> 0]>> \o notif
  /\ lastOp' = "csvError"
  /\ UNCHANGED <<adminRows, aiChat, audit, adminBatch, ops>>

importJSONRows(raw) ==
  /\ UNCHANGED <<dashVars, callVars, sizeVars, downloads>>
  /\ ops < MaxOps
  /\ ops' = ops + 1
  /\ CASE raw.kind = "invalid" ->
            /\ notif' = <<[msg |-> "Invalid JSON", n |-> 0]>> \o notif
            /\ lastOp' = "importJSONRows:invalid"
            /\ UNCHANGED <<adminRows, audit, adminBatch>>
       [] raw.kind = "object" ->
            /\ notif' = <<[msg |-> "JSON must be an array of objects", n |-> 0]>> \o notif
            /\ lastOp' = "importJSONRows:notArray"
            /\ UNCHANGED <<adminRows, audit, adminBatch>>
       [] raw.kind = "array" ->
            /\ adminRows' = prepend(raw.value, adminRows)
            /\ notif' = <<[msg |-> "Imported rows", n |-> Len(raw.value)]>> \o notif
            /\ audit' = pushAudit(audit, "Imported JSON rows")
            /\ adminBatch' = [n |-> adminBatch.n + 1, data |-> raw.value,
                                prev |-> adminBatch.data, input |-> raw.value]
            /\ lastOp' = "importJSONRows"
  /\ UNCHANGED <<csvParsing, aiChat, csvJobs>>

clearDataset ==
  /\ UNCHANGED <<dashVars, callVars, sizeVars, downloads>>
  /\ ops < MaxOps
  /\ ops' = ops + 1
  /\ adminRows' = <<>>
  /\ notif' = <<[msg |-> "Dataset cleared", n |-> 0]>> \o notif
  /\ audit' = pushAudit(audit, "Cleared dataset")
  /\ lastOp' = "clearDataset"
  /\ UNCHANGED <<csvParsing, aiChat, csvJobs, adminBatch>>

\* aiAsk with a question that asks for a route: recommendRoute, then the
\* question and the answer are appended to the chat
aiAskRoute ==
  /\ UNCHANGED <<dashVars, callVars, sizeVars, downloads>>
  /\ ops < MaxOps
  /\ ops' = ops + 1
  /\ LET advice == suggestions(adminRows)
     IN  aiChat' = aiChat \o << [who |-> "assistant", advice |-> advice],
                                [who |-> "user", advice |-> <<>>],
                                [who |-> "assistant", advice |-> advice] >>
  /\ audit' = pushAudit(pushAudit(audit, "Route recommended"), "Asked")
  /\ lastOp' = "recommendRoute"
  /\ UNCHANGED <<adminRows, notif, csvParsing, csvJobs, adminBatch>>

\* the 4 s timer that drops the first notification
notifTimeout ==
  /\ UNCHANGED <<dashVars, callVars, sizeVars, downloads>>
  /\ notif # <<>>
  /\ notif' = Tail(notif)
  /\ lastOp' = "notifTimeout"
  /\ UNCHANGED <<adminRows, csvParsing, aiChat, audit, csvJobs, adminBatch, ops>>

Next ==
  \/ \E f \in Files : handleFile(f)
  \/ \E j \in parses : parseComplete(j)
  \/ \E j \in parses, m \in ErrorMessages : parseError(j, m)
  \/ clearFile
  \/ \E k \in MappingKeys, v \in Range(columns) \cup {""} : onSelect(k, v)
  \/ dataEffect
  \/ \E d \in AdminData : importCSV(d)
  \/ \E j \in csvJobs, now \in Clock : csvComplete(j, now)
  \/ \E j \in csvJobs, m \in ErrorMessages : csvError(j, m)
  \/ \E raw \in JsonTexts : importJSONRows(raw)
  \/ clearDataset
  \/ aiAskRoute
  \/ notifTimeout

Spec == Init /\ [][Next]_vars

Settled == ~effectPending

(* ---------------- simplePredictor on arbitrary route averages ---------- *)
AvgValues == {[num |-> FALSE, v |-> 0]} \cup {[num |-> TRUE, v |-> x] : x \in {1000, 2000, 2050, 3000}}

GroupInputs ==
  {[i \in 1..Len(a) |-> [route |-> "R" \o natString(i), avg |-> a[i], count |-> IF a[i].num THEN 1 ELSE 0]] :
     a \in SeqsUpTo(AvgValues, MaxGroups)}

ClassifyInit ==
  /\ InitPages
  /\ groups \in GroupInputs /\ classified = <<>> /\ pc = "call"
  /\ NoLargeData

classify ==
  /\ pc = "call"
  /\ classified' = simplePredictor(groups)
  /\ pc' = "done"
  /\ UNCHANGED <<dashVars, adminVars, ops, lastOp, groups, sizeVars, downloads>>

ClassifySpec == ClassifyInit /\ [][classify]_vars

(* ------------- ingestion of files with imperfect cells ----------------- *)
\* the columns of the ingested tables and the cells Papa.parse (dynamicTyping)
\* delivers in them: numbers, strings that are no number, null for an empty
\* field.  The value and time columns are named valueC and timeC.
IngestSheets(valueC, timeC) ==
  LET routes == {Str("R1"), Null}
      values == {Num(40), Num(0), Str("not-a-number"), Null}
      times  == {Str("1970-01-01 00:01:30"), Str("soon"), Null}
      lats   == {Num(1), Num(95), Null}
  IN  { [fields |-> <<"route", valueC>>,
         cells  |-> [c \in {"route", valueC} |-> IF c = "route" THEN routes ELSE values]],
        [fields |-> <<"route", valueC, timeC>>,
         cells  |-> [c \in {"route", valueC, timeC} |->
                       IF c = "route" THEN {Str("R1")}
                       ELSE IF c = valueC THEN {Num(40)} ELSE times]],
        [fields |-> <<valueC, "lat", "lng">>,
         cells  |-> [c \in {valueC, "lat", "lng"} |->
                       IF c = valueC THEN {Num(40)}
                       ELSE IF c = "lat" THEN lats ELSE {Num(32)}]] }

IngestRowsOver(sh) ==
  {r \in [Range(sh.fields) -> UNION Range(sh.cells)] :
     \A c \in Range(sh.fields) : r[c] \in sh.cells[c]}

\* what Papa.parse delivers for the files uploaded to the Dashboard
IngestFiles ==
  UNION {{[fields |-> sh.fields, data |-> d] :
            d \in SeqsUpTo(IngestRowsOver(sh), MaxFileRows)} :
         sh \in IngestSheets("congestion", "time")}

\* what Papa.parse delivers for the files imported into AdminDashboard, and
\* the arrays pasted as JSON
IngestAdminData ==
  UNION {SeqsUpTo(IngestRowsOver(sh), MaxFileRows) :
         sh \in IngestSheets("value", "timestamp")}

IngestNext ==
  \/ \E f \in IngestFiles : handleFile(f)
  \/ \E j \in parses : parseComplete(j)
  \/ dataEffect
  \/ \E d \in IngestAdminData : importCSV(d)
  \/ \E j \in csvJobs, now \in Clock : csvComplete(j, now)
  \/ \E d \in IngestAdminData : importJSONRows([kind |-> "array", value |-> d])

IngestSpec == Init /\ [][IngestNext]_vars

(* ---------------------- ingestion of large datasets -------------------- *)
\* The rows of large datasets are kept by number, not by content: a run
\* [batch, from, to, route] stands for the records from..to of the import
\* numbered batch, in the order of the array; the records of one import are
\* of one route and have numeric values.
LargeRoutes == {"R1", "R2"}

ImportSizes == {1, 2, 100000, 150000, 199999, 200000, 200001, 250000}

runSize(r) == r.to - r.from + 1

RECURSIVE runsLen(_)
runsLen(rs) == IF rs = <<>> THEN 0 ELSE runSize(Head(rs)) + runsLen(Tail(rs))

\* rs.slice(0, n) of an array given as runs
RECURSIVE sliceRuns(_, _)
sliceRuns(rs, n) ==
  IF rs = <<>> \/ n <= 0 THEN <<>>
  ELSE IF runSize(Head(rs)) <= n
       THEN <<Head(rs)>> \o sliceRuns(Tail(rs), n - runSize(Head(rs)))
       ELSE <<[Head(rs) EXCEPT !.to = Head(rs).from + n - 1]>>

\* setRows(prev => [...batch, ...prev].slice(0, 200000)) of importCSV's complete
\* callback and of importJSONRows, for an import of n records of a route
importLarge(n, route) ==
  /\ UNCHANGED <<dashVars, adminVars, callVars, downloads>>
  /\ ops < MaxOps
  /\ ops' = ops + 1
  /\ adminRuns' = sliceRuns(<<[batch |-> ops + 1, from |-> 1, to |-> n, route |-> route]>>
                             \o adminRuns, RowCap)
  /\ lastOp' = "importLarge"
  /\ UNCHANGED dashCount

\* setRows(data) of the Dashboard's onParsed, for a file of n rows
onParsedLarge(n) ==
  /\ UNCHANGED <<dashVars, adminVars, callVars, downloads>>
  /\ ops < MaxOps
  /\ ops' = ops + 1
  /\ dashCount' = n
  /\ lastOp' = "onParsedLarge"
  /\ UNCHANGED adminRuns

\* count of the byRoute bucket of a route in the stats memo
routeCount(runs, route) ==
  runsLen(SelectSeq(runs, LAMBDA r : r.route = route))

LargeNext ==
  \/ \E n \in ImportSizes, route \in LargeRoutes : importLarge(n, route)
  \/ \E n \in ImportSizes : onParsedLarge(n)

LargeSpec == Init /\ [][LargeNext]_vars

(* ---------------- ingestion of files with various headers -------------- *)
\* header rows of the uploaded files: res.meta.fields
DetectFields ==
  { <<>>, <<"route", "value">>, <<"route", "speed">>, <<"route_latency", "value">>,
    <<"date_count", "route">>, <<"road", "vehicles", "date">> }

\* the cell of a column: a name for a route-like column, a number otherwise
DetectCell(c) ==
  IF c \in {"route", "road"} THEN Str("R1") ELSE Num(40)

DetectFiles ==
  UNION {{[fields |-> F, data |-> [i \in 1..n |-> [c \in Range(F) |-> DetectCell(c)]]] :
            n \in 0..MaxFileRows} : F \in DetectFields}

\* uploads only: the mapping is never chosen by hand
DetectNext ==
  \/ \E f \in DetectFiles : handleFile(f)
  \/ \E j \in parses : parseComplete(j)
  \/ clearFile
  \/ dataEffect

DetectSpec == Init /\ [][DetectNext]_vars

(* ------------------------ export and re-import ------------------------- *)
\* JSON.parse(JSON.stringify(v)) of a cell: NaN becomes null
jsonCell(v) == IF v.t = "nan" THEN Null ELSE v

\* JSON.parse(JSON.stringify(o)) of a flat record: undefined members are left out
jsonFlat(o) == [c \in {k \in DOMAIN o : o[k].t # "undef"} |-> jsonCell(o[c])]

\* JSON.parse(JSON.stringify(r)) of a stored row (its raw member is a record)
jsonRow(r) ==
  [c \in {k \in DOMAIN r : r[k].t # "undef"} |->
     IF r[c].t = "obj" THEN [r[c] EXCEPT !.o = jsonFlat(@)] ELSE jsonCell(r[c])]

\* the text exportProcessedJSON writes, by what JSON.parse makes of it: the
\* object {meta: {generatedAt, rows}, rows}
payload(rs, now) ==
  [kind |-> "object", value |-> <<>>,
   meta |-> [generatedAt |-> now, rows |-> Len(rs)],
   rows |-> [i \in DOMAIN rs |-> jsonRow(rs[i])]]

exportProcessedJSON(now) ==
  /\ UNCHANGED <<dashVars, callVars, sizeVars>>
  /\ ops < MaxOps
  /\ ops' = ops + 1
  /\ downloads' = Append(downloads, payload(adminRows, now))
  /\ notif' = <<[msg |-> "Export started", n |-> 0]>> \o notif
  /\ lastOp' = "exportProcessedJSON"
  /\ UNCHANGED <<adminRows, csvParsing, aiChat, audit, csvJobs, adminBatch>>

\* the rows AdminDashboard finds in localStorage when it mounts: what earlier
\* CSV or JSON imports left there
StoredRows == AdminData \cup {normalized(d, now) : d \in AdminData, now \in Clock}

RoundTripInit ==
  /\ rows = <<>> /\ columns = <<>> /\ selectedCols = NoCols
  /\ statsByRoute = <<>> /\ series = <<>> /\ predictions = <<>>
  /\ predGroups = <<>> /\ topRoutes = <<>>
  /\ notifications = <<>> /\ parsing = FALSE
  /\ parses = {} /\ effectPending = FALSE
  /\ ops = 0
  /\ latest = [id |-> 0, data |-> <<>>, done |-> FALSE, cleared |-> FALSE]
  /\ lastBatch = [n |-> 0, data |-> <<>>, prev |-> <<>>, fields |-> <<>>]
  /\ adminRows \in StoredRows
  /\ notif = <<>> /\ csvParsing = FALSE
  /\ aiChat = <<[who |-> "system", advice |-> <<>>]>>
  /\ audit = <<>> /\ csvJobs = {}
  /\ adminBatch = [n |-> 0, data |-> <<>>, prev |-> <<>>, input |-> <<>>]
  /\ lastOp = "init"
  /\ groups = <<>> /\ classified = <<>> /\ pc = "idle"
  /\ NoLargeData

RoundTripNext ==
  \/ \E now \in Clock : exportProcessedJSON(now)
  \/ \E i \in DOMAIN downloads : importJSONRows(downloads[i])
  \/ clearDataset

RoundTripSpec == RoundTripInit /\ [][RoundTripNext]_vars

(* ======================= properties of the claims ====================== *)
Degenerate(rs, cols) == Len(rs) = 0 \/ cols.routeCol = "" \/ cols.valueCol = ""

\* the route keys of the route-aggregate view of the current rows and mapping
CurrentRouteKeys ==
  IF Degenerate(rows, selectedCols) THEN {}
  ELSE {RouteKey(Get(rows[i], selectedCols.routeCol)) : i \in DOMAIN rows}

\* the routes to which some row contributes a numeric value
QualifyingRoutes ==
  IF Degenerate(rows, selectedCols) THEN {}
  ELSE {RouteKey(Get(rows[i], selectedCols.routeCol)) :
          i \in {k \in DOMAIN rows : isNumeric(Get(rows[k], selectedCols.valueCol))}}

AdminRouteKeys == {adminRouteKey(adminRows[i]) : i \in DOMAIN adminRows}
AdminQualifyingRoutes ==
  {adminRouteKey(adminRows[i]) :
     i \in {k \in DOMAIN adminRows : Number(Get(adminRows[k], "value")).t = "num"}}

\* the routes recommendRoute has just returned
AdviceRoutes ==
  LET a == aiChat[Len(aiChat)].advice IN [i \in DOMAIN a |-> a[i].route]

NoDuplicates(q) == \A i, j \in DOMAIN q : i # j => q[i] # q[j]
Reorderings(q) ==
  {[i \in DOMAIN q |-> q[f[i]]] :
     f \in {g \in [DOMAIN q -> DOMAIN q] : \A a, b \in DOMAIN q : a # b => g[a] # g[b]}}
AllZero(pg) == \A i \in DOMAIN pg : pg[i].count = 0

\* C1: once the ingestion of a dataset and then of a second, smaller (not
\* empty) dataset have completed, the stored rows are exactly the rows of the
\* second, and every derived view (route aggregates, predictions, top routes,
\* prediction distribution, time series) is the one computed from those rows
\* alone; in the Dashboard and in AdminDashboard alike.
C1_OnlyLastDatasetRemains ==
  /\ (Settled /\ lastBatch.n >= 2
        /\ 0 < Len(lastBatch.data) /\ Len(lastBatch.data) < Len(lastBatch.prev)) =>
       LET d == lastBatch.data
           c == selectedCols
           st == IF Degenerate(d, c) THEN <<>> ELSE stats(d, c.routeCol, c.valueCol)
       IN  /\ rows = d
           /\ statsByRoute = st
           /\ predictions = (IF Degenerate(d, c) THEN <<>> ELSE simplePredictor(st))
           /\ topRoutes = topOf(st)
           /\ IF Degenerate(d, c) THEN AllZero(predGroups)
              ELSE predGroups = predGroupsOf(simplePredictor(st))
           /\ series = (IF Len(d) = 0 \/ c.timeCol = "" \/ c.valueCol = "" THEN <<>>
                        ELSE seriesData(d, c.timeCol, c.valueCol))
  /\ (adminBatch.n >= 2 /\ lastOp \in {"csvComplete", "importJSONRows"}
        /\ 0 < Len(adminBatch.data) /\ Len(adminBatch.data) < Len(adminBatch.prev)) =>
       adminRows = adminBatch.data

\* C2: when every started parse has completed and the file ingestion started
\* last has delivered its rows (and nothing was cleared since), the row set is
\* exactly the rows of that last-started ingestion, whatever the order in
\* which the parse-complete callbacks arrived.
C2_LatestIngestionWins ==
  (parses = {} /\ latest.id # 0 /\ latest.done /\ ~latest.cleared) =>
     rows = latest.data

FailureOps == {"parseError", "csvError", "importJSONRows:invalid", "importJSONRows:notArray"}

\* C3: a failed ingestion attempt (parser error callback, JSON text that does
\* not parse, JSON that is not an array) changes neither the rows, the columns,
\* the mapping nor any derived view, and puts a message with the reason at the
\* head of the notifications.
C3_FailedIngestionKeepsDataset ==
  [][lastOp' \in FailureOps =>
       /\ UNCHANGED <<rows, columns, selectedCols, statsByRoute, series,
                      predictions, predGroups, topRoutes, effectPending>>
       /\ UNCHANGED <<adminRows, adminBatch>>
       /\ lastOp' = "parseError" =>
            /\ Len(notifications') > 0
            /\ \E m \in ErrorMessages : notifications'[1].msg = "Parse error: " \o m
       /\ lastOp' = "csvError" =>
            /\ Len(notif') = Len(notif) + 1
            /\ \E m \in ErrorMessages : notif'[1].msg = "CSV parse error: " \o m
       /\ lastOp' = "importJSONRows:invalid" =>
            Len(notif') = Len(notif) + 1 /\ notif'[1].msg = "Invalid JSON"
       /\ lastOp' = "importJSONRows:notArray" =>
            Len(notif') = Len(notif) + 1 /\ notif'[1].msg = "JSON must be an array of objects"
  ]_vars

\* a parse failed while a dataset with route aggregates was active
C3_Witness ==
  /\ lastOp = "parseError"
  /\ Len(rows) > 0 /\ Len(statsByRoute) > 0
  /\ notifications[1].msg = "Parse error: NotReadableError"

\* C4: in every settled state of the Dashboard with no value column selected or
\* with no rows, every derived view is empty: no route aggregates, predictions,
\* top routes or time series, and no prediction-distribution count above zero.
C4_DegenerateViewsEmpty ==
  (Settled /\ (selectedCols.valueCol = "" \/ Len(rows) = 0)) =>
     /\ statsByRoute = <<>> /\ predictions = <<>> /\ topRoutes = <<>>
     /\ series = <<>>
     /\ AllZero(predGroups)

\* C5: in every settled state the recommended routes are route keys of the
\* route-aggregate view of the current rows and mapping; and the routes
\* recommendRoute returns are routes of the current AdminDashboard aggregates.
C5_NoStaleRecommendations ==
  /\ Settled => Range(recommended(topRoutes)) \subseteq CurrentRouteKeys
  /\ lastOp = "recommendRoute" =>
       Range(AdviceRoutes) \subseteq {routeStats(adminRows)[i].route : i \in DOMAIN routeStats(adminRows)}

\* a smaller dataset replaced one that had a route the new one lacks, and
\* routes are recommended
C5_Witness ==
  /\ Settled /\ lastBatch.n >= 2
  /\ Len(rows) < Len(lastBatch.prev)
  /\ recommended(topRoutes) # <<>>
  /\ \E i \in DOMAIN lastBatch.prev :
       \E c \in {"Route", "route"} \cap DOMAIN lastBatch.prev[i] :
          RouteKey(lastBatch.prev[i][c]) \notin CurrentRouteKeys

RecommendationShape(rec, input, qualifying) ==
  /\ Len(rec) <= 3
  /\ NoDuplicates(rec)
  /\ Range(rec) \subseteq input
  /\ Cardinality(qualifying) < 3 => Range(rec) = qualifying

\* C6: the recommendation holds at most 3 routes, no route twice, each a route
\* of the input, and when fewer than 3 routes have a defined average it is
\* exactly the set of routes with a defined average.
C6_RecommendationSize ==
  /\ Settled => RecommendationShape(recommended(topRoutes), CurrentRouteKeys, QualifyingRoutes)
  /\ lastOp = "recommendRoute" =>
       RecommendationShape(AdviceRoutes, AdminRouteKeys, AdminQualifyingRoutes)

\* the average the route-aggregate view shows for a route
avgOf(route) ==
  LET i == CHOOSE k \in DOMAIN statsByRoute : statsByRoute[k].route = route
  IN  statsByRoute[i].avg.v

\* C7: the recommended routes are listed in non-decreasing order of average,
\* and no route with a defined average outside the list has a strictly lower
\* average than a route in it.
C7_RecommendedAscending ==
  Settled =>
    LET rec == recommended(topRoutes)
    IN  /\ \A i, j \in DOMAIN rec : i < j => avgOf(rec[i]) <= avgOf(rec[j])
        /\ \A i \in DOMAIN rec :
             \A k \in DOMAIN statsByRoute :
                (statsByRoute[k].avg.num /\ statsByRoute[k].route \notin Range(rec))
                   => statsByRoute[k].avg.v >= avgOf(rec[i])

\* C8: a route to which no row contributed a numeric value is never
\* recommended.
C8_NoDataNeverRecommended ==
  /\ Settled => Range(recommended(topRoutes)) \subseteq QualifyingRoutes
  /\ lastOp = "recommendRoute" => Range(AdviceRoutes) \subseteq AdminQualifyingRoutes

\* C9: the recommendation is the same for every permutation of the same rows.
C9_SameForEveryPermutation ==
  /\ (Settled /\ ~Degenerate(rows, selectedCols)) =>
       \A p \in Reorderings(rows) :
          recommended(topOf(stats(p, selectedCols.routeCol, selectedCols.valueCol)))
             = recommended(topRoutes)
  /\ lastOp = "recommendRoute" =>
       \A p \in Reorderings(adminRows) :
          LET a == suggestions(p) IN [i \in DOMAIN a |-> a[i].route] = AdviceRoutes

\* the defined averages of the argument of simplePredictor
DefinedAvgs == {i \in DOMAIN groups : groups[i].avg.num}

\* the value at index k (from 0) of the defined averages in ascending order
OrderStatistic(k) ==
  CHOOSE q \in {groups[i].avg.v : i \in DefinedAvgs} :
     /\ Cardinality({i \in DefinedAvgs : groups[i].avg.v < q}) <= k
     /\ Cardinality({i \in DefinedAvgs : groups[i].avg.v <= q}) > k

\* C10: with n >= 1 defined averages, Q1 and Q3 the values at indices
\* floor(n * 0.25) and floor(n * 0.75) of the ascending averages, simplePredictor
\* returns one result per route, in input order, labelled NoData without a
\* numeric average, else Heavy when avg >= Q3, else Light when avg <= Q1, else
\* Moderate.
C10_QuartileClassification ==
  (pc = "done" /\ DefinedAvgs # {}) =>
     LET n == Cardinality(DefinedAvgs)
         Q1 == OrderStatistic(n \div 4)
         Q3 == OrderStatistic((3 * n) \div 4)
     IN  /\ Len(classified) = Len(groups)
         /\ \A i \in DOMAIN groups :
              /\ classified[i].route = groups[i].route
              /\ classified[i].avg = groups[i].avg
              /\ classified[i].prediction =
                   (IF ~groups[i].avg.num THEN "NoData"
                    ELSE IF groups[i].avg.v >= Q3 THEN "Heavy"
                    ELSE IF groups[i].avg.v <= Q1 THEN "Light"
                    ELSE "Moderate")

\* one call labelled routes with all four labels
C10_Witness ==
  /\ pc = "done"
  /\ {classified[i].prediction : i \in DOMAIN classified}
       = {"NoData", "Heavy", "Light", "Moderate"}

\* C11: when no input route has a defined numeric average, simplePredictor
\* returns one result per input route, in input order, and labels every one
\* of them "NoData".
C11_NoDataWhenNoAverages ==
  (pc = "done" /\ DefinedAvgs = {}) =>
     /\ Len(classified) = Len(groups)
     /\ \A i \in DOMAIN groups :
          /\ classified[i].route = groups[i].route
          /\ classified[i].prediction = "NoData"

(* ---------------- helpers of the claims about normalization ------------ *)
\* the record a stored AdminDashboard row came from: importCSV keeps it under
\* raw, importJSONRows stores the pasted record itself
RawOf(r) == IF "raw" \in DOMAIN r THEN r.raw.o ELSE r

\* null, missing or empty
Absent(v) == v.t \in {"null", "undef"} \/ (v.t = "str" /\ v.s = "")

\* the time, value and coordinate fields of a raw record
RawTime(o)  == orChain(<<Get(o, "timestamp"), Get(o, "time"), Get(o, "date")>>,
                       Get(o, "datetime"))
RawValue(o) == nullishChain(<<Get(o, "value"), Get(o, "congestion"), Get(o, "count"),
                              Get(o, "flow"), Get(o, "vehicles")>>)
HasTime(o)  == tryParseDate(RawTime(o)).t # "null"

RECURSIVE SumOf(_)
SumOf(q) == IF q = <<>> THEN 0 ELSE Head(q) + SumOf(Tail(q))

\* avg100 (in hundredths) is the arithmetic mean of vals, when there are any
MeanIs(avg100, vals) == Len(vals) > 0 => avg100 * Len(vals) = 100 * SumOf(vals)

\* the route a row falls under: the cell of the route column, "Unknown" when
\* there is no route column or the cell is absent
FallbackRoute(r, col) ==
  IF col = "" \/ Absent(Get(r, col)) THEN "Unknown" ELSE String(Get(r, col))

InLat(n) == -90 <= n /\ n <= 90
InLng(n) == -180 <= n /\ n <= 180

\* C12: the route-aggregate view has exactly one bucket per distinct route, and
\* the average of each bucket is the arithmetic mean of the non-null numeric
\* values of the rows of that route; in the Dashboard (settled, route and value
\* columns selected) and in the AdminDashboard stats.
C12_RouteAverageIsMean ==
  /\ (Settled /\ ~Degenerate(rows, selectedCols)) =>
       /\ {statsByRoute[k].route : k \in DOMAIN statsByRoute} = CurrentRouteKeys
       /\ Len(statsByRoute) = Cardinality(CurrentRouteKeys)
       /\ \A k \in DOMAIN statsByRoute :
            LET mine == SelectSeq(rows, LAMBDA r :
                          /\ RouteKey(Get(r, selectedCols.routeCol)) = statsByRoute[k].route
                          /\ Get(r, selectedCols.valueCol).t = "num")
                vals == [i \in DOMAIN mine |-> mine[i][selectedCols.valueCol].n]
            IN  Len(vals) > 0 => (statsByRoute[k].avg.num /\ MeanIs(statsByRoute[k].avg.v, vals))
  /\ LET rst == routeStats(adminRows)
     IN  /\ {rst[k].route : k \in DOMAIN rst} = AdminRouteKeys
         /\ Len(rst) = Cardinality(AdminRouteKeys)
         /\ \A k \in DOMAIN rst :
              LET mine == SelectSeq(adminRows, LAMBDA r :
                            /\ adminRouteKey(r) = rst[k].route
                            /\ Get(r, "value").t = "num")
                  vals == [i \in DOMAIN mine |-> mine[i].value.n]
              IN  MeanIs(rst[k].avg, vals)

\* C13: rows whose timestamp is absent or does not parse are invisible to the
\* time series: the series is the one of the rows that have a parsable
\* timestamp; in the Dashboard (settled) and in the AdminDashboard stats.
C13_NoTimestampNoBucket ==
  /\ (Settled /\ Len(rows) > 0 /\ selectedCols.timeCol # "" /\ selectedCols.valueCol # "") =>
       series = seriesData(SelectSeq(rows, LAMBDA r :
                               tryParseDate(Get(r, selectedCols.timeCol)).t # "null"),
                           selectedCols.timeCol, selectedCols.valueCol)
  /\ dateSeries(adminRows) = dateSeries(SelectSeq(adminRows, LAMBDA r : HasTime(RawOf(r))))

\* C14: no row is dropped for its route and no route is empty: in the settled
\* Dashboard with a value column, every row is aggregated under its route, or
\* under "Unknown" when the route cell is absent or no route column is
\* selected; and importCSV gives every row a non-empty route, "Unknown" when the
\* record has none.
C14_RouteFallsBackToUnknown ==
  /\ (Settled /\ Len(rows) > 0 /\ selectedCols.valueCol # "") =>
       /\ \A i \in DOMAIN rows :
            \E k \in DOMAIN statsByRoute :
               statsByRoute[k].route = FallbackRoute(rows[i], selectedCols.routeCol)
       /\ \A k \in DOMAIN statsByRoute : statsByRoute[k].route # ""
  /\ lastOp = "csvComplete" =>
       /\ Len(adminBatch.data) = Len(adminBatch.input)
       /\ \A i \in DOMAIN adminBatch.data :
            adminBatch.data[i].route = Str(FallbackRoute(adminBatch.input[i], "route"))

\* C15: a latitude outside -90..90 or a longitude outside -180..180 is
\* normalized to null by importCSV, and MapView draws no marker at such a
\* position.
C15_OutOfRangeCoordinateIsNull ==
  /\ lastOp = "csvComplete" =>
       \A i \in DOMAIN adminBatch.data :
          LET r == adminBatch.data[i]
          IN  /\ r.lat.t = "num" => InLat(r.lat.n)
              /\ r.lng.t = "num" => InLng(r.lng.n)
  /\ \A m \in markers(rows, selectedCols.latCol, selectedCols.lngCol) :
        InLat(m.lat) /\ InLng(m.lng)

\* C16: MapView draws a marker for a row only if both the latitude and the
\* longitude cell of that row are defined (not null, empty or missing).
C16_MarkerNeedsBothCoordinates ==
  \A m \in markers(rows, selectedCols.latCol, selectedCols.lngCol) :
     /\ ~Absent(Get(rows[m.row], selectedCols.latCol))
     /\ ~Absent(Get(rows[m.row], selectedCols.lngCol))

\* C17: importCSV sets value to the number for every raw value that is a
\* number (0 and negative numbers included) and to null for every other raw
\* value; and each Dashboard route bucket counts exactly the rows of the route
\* whose value cell is a number.
C17_ValueIsNumberOrNull ==
  /\ lastOp = "csvComplete" =>
       /\ Len(adminBatch.data) = Len(adminBatch.input)
       /\ \A i \in DOMAIN adminBatch.data :
            LET raw == RawValue(adminBatch.input[i])
            IN  adminBatch.data[i].value = (IF raw.t = "num" THEN raw ELSE Null)
  /\ (Settled /\ ~Degenerate(rows, selectedCols)) =>
       \A k \in DOMAIN statsByRoute :
          statsByRoute[k].count =
            Cardinality({i \in DOMAIN rows :
                           /\ RouteKey(Get(rows[i], selectedCols.routeCol)) = statsByRoute[k].route
                           /\ Get(rows[i], selectedCols.valueCol).t = "num"})

\* every field a normalized row is built from is null or missing
AllRequestedNull(o) ==
  /\ Absent(orChain(<<Get(o, "route"), Get(o, "Road"), Get(o, "link"), Get(o, "segment")>>,
                    Get(o, "road")))
  /\ Absent(RawTime(o))
  /\ Absent(RawValue(o))
  /\ Absent(orChain(<<Get(o, "lat"), Get(o, "latitude")>>, Get(o, "start_lat")))
  /\ Absent(orChain(<<Get(o, "lng"), Get(o, "longitude")>>, Get(o, "start_lng")))

\* C18: importCSV keeps exactly the records with at least one non-null
\* requested field: the rows it stores are the input records minus those whose
\* requested fields are all null (the dropped ones), in the same order.
C18_AllNullRowsDropped ==
  lastOp = "csvComplete" =>
     LET kept == SelectSeq(adminBatch.input, LAMBDA o : ~AllRequestedNull(o))
     IN  /\ Len(adminBatch.data) = Len(kept)
         /\ \A i \in DOMAIN kept : i \in DOMAIN adminBatch.data => RawOf(adminBatch.data[i]) = kept[i]

\* C19: importCSV keeps a record whose time field is absent or does not parse,
\* with timestamp null.
C19_NoInventedTimestamp ==
  lastOp = "csvComplete" =>
     \A i \in DOMAIN adminBatch.input :
        ~HasTime(adminBatch.input[i]) =>
           /\ i \in DOMAIN adminBatch.data
           /\ adminBatch.data[i].timestamp = Null

\* C20: after any sequence of ingestions neither page stores more than 200,000
\* rows, and an import that exceeds the cap evicts no row accepted before:
\* every record stored before the import is still stored after it.
C20_RowCapKeepsAcceptedRows ==
  [][/\ dashCount' <= RowCap
     /\ runsLen(adminRuns') <= RowCap
     /\ lastOp' = "importLarge" =>
          \A i \in DOMAIN adminRuns :
             \E j \in DOMAIN adminRuns' :
                /\ adminRuns'[j].batch = adminRuns[i].batch
                /\ adminRuns'[j].from <= adminRuns[i].from
                /\ adminRuns'[j].to >= adminRuns[i].to
  ]_vars

\* C21: auto-detection gives a column at most one role: after a parse
\* completed, no column is selected for two different mapping entries.
C21_OneRolePerColumn ==
  lastOp = "parseComplete" =>
     \A k1, k2 \in MappingKeys :
        (k1 # k2 /\ selectedCols[k1] # "") => selectedCols[k1] # selectedCols[k2]

MeasurementTokens == {"value", "congestion", "count", "flow", "speed", "vehicles"}

\* C22: when the uploaded file has rows, a route column and a column whose name
\* contains a measurement token (value, congestion, count, flow, speed,
\* vehicles), then without any manual selection a value column is selected and
\* the route aggregates are not empty.
C22_MeasurementTokenSelectsValue ==
  (Settled /\ Len(rows) > 0 /\ selectedCols.routeCol # ""
     /\ \E i \in DOMAIN columns : \E tok \in MeasurementTokens :
           includes(toLowerCase(columns[i]), tok)) =>
     /\ selectedCols.valueCol # ""
     /\ statsByRoute # <<>>

\* C23: importing a file that exportProcessedJSON wrote of a dataset with at
\* least one row is accepted and gives
\* route aggregates and a time series identical to those of the rows at the
\* time of the export.
C23_ExportImportRoundTrip ==
  [][\A i \in DOMAIN downloads :
        (Len(downloads[i].rows) > 0 /\ importJSONRows(downloads[i])) =>
           /\ lastOp' = "importJSONRows"
           /\ routeStats(adminRows') = routeStats(downloads[i].rows)
           /\ dateSeries(adminRows') = dateSeries(downloads[i].rows)
  ]_vars

\* a bucket of an aggregate view counts exactly the given values
CountsExactly(b, vals) == b.count = Len(vals) /\ b.sum = SumOf(vals)

\* the numeric values of the rows rs that fall in the bucket, by column
NumbersIn(rs, col, InBucket(_)) ==
  LET mine == SelectSeq(rs, LAMBDA r : InBucket(r) /\ Get(r, col).t = "num")
  IN  [i \in DOMAIN mine |-> mine[i][col].n]

\* C24: in every aggregate view a bucket's count is the number of its rows
\* whose value is a number, and its sum the sum of those values: the Dashboard's
\* route and time buckets (settled), and the route and date buckets of
\* AdminDashboard's stats and the route buckets of recommendRoute.
C24_BucketCountsNumericValues ==
  /\ (Settled /\ ~Degenerate(rows, selectedCols)) =>
       LET br == byRoute(rows, selectedCols.routeCol, selectedCols.valueCol, <<>>)
       IN  /\ \A k \in DOMAIN br :
                CountsExactly(br[k], NumbersIn(rows, selectedCols.valueCol,
                   LAMBDA r : RouteKey(Get(r, selectedCols.routeCol)) = br[k].key))
           /\ \A k \in DOMAIN statsByRoute :
                \E j \in DOMAIN br : /\ br[j].key = statsByRoute[k].route
                                     /\ br[j].count = statsByRoute[k].count
  /\ (Settled /\ Len(rows) > 0 /\ selectedCols.timeCol # "" /\ selectedCols.valueCol # "") =>
       LET bd == byDate(rows, selectedCols.timeCol, selectedCols.valueCol, <<>>)
       IN  \A k \in DOMAIN bd :
              CountsExactly(bd[k], NumbersIn(rows, selectedCols.valueCol,
                 LAMBDA r : LET d == tryParseDate(Get(r, selectedCols.timeCol))
                            IN  d.t # "null" /\ MinuteKey(d.n) = bd[k].key))
  /\ LET br == statsByRouteAdmin(adminRows, <<>>)
         bd == adminByDate(adminRows, <<>>)
         rr == recByRoute(adminRows, <<>>)
     IN  /\ \A k \in DOMAIN br :
              CountsExactly(br[k], NumbersIn(adminRows, "value",
                 LAMBDA r : adminRouteKey(r) = br[k].key))
         /\ \A k \in DOMAIN rr :
              CountsExactly(rr[k], NumbersIn(adminRows, "value",
                 LAMBDA r : adminRouteKey(r) = rr[k].key))
         /\ \A k \in DOMAIN bd :
              /\ ~bd[k].nan
              /\ CountsExactly(bd[k], NumbersIn(adminRows, "value",
                   LAMBDA r : dateKey(r) = Str(bd[k].key)))

\* C25: a bucket with count 0 has no number as its average: the Dashboard
\* reports no numeric average for such a route and plots no point for such a
\* minute, AdminDashboard's stats report no numeric average for such a route,
\* and recommendRoute estimates none.
C25_EmptyBucketHasNoAverage ==
  /\ Settled =>
       /\ \A k \in DOMAIN statsByRoute :
             statsByRoute[k].count = 0 => ~statsByRoute[k].avg.num
       /\ (Len(rows) > 0 /\ selectedCols.timeCol # "" /\ selectedCols.valueCol # "") =>
            LET bd == byDate(rows, selectedCols.timeCol, selectedCols.valueCol, <<>>)
            IN  \A k \in DOMAIN bd :
                   bd[k].count = 0 => \A i \in DOMAIN series : series[i].date # bd[k].key
  /\ LET br == statsByRouteAdmin(adminRows, <<>>)
         rst == routeStats(adminRows)
     IN  \A k \in DOMAIN br :
            br[k].count = 0 => \A i \in DOMAIN rst : rst[i].route # br[k].key
  /\ lastOp = "recommendRoute" =>
       \A i \in DOMAIN aiChat[Len(aiChat)].advice : ~aiChat[Len(aiChat)].advice[i].est.inf

\* C26: a route whose average equals Q3 is labelled Heavy, also when the
\* average equals Q1 as well; so when all defined averages are equal (or there
\* is only one), every route with an average is Heavy.
C26_TiesGoToHeavy ==
  (pc = "done" /\ DefinedAvgs # {}) =>
     LET n == Cardinality(DefinedAvgs)
         Q3 == OrderStatistic((3 * n) \div 4)
     IN  /\ \A i \in DefinedAvgs :
              groups[i].avg.v = Q3 => classified[i].prediction = "Heavy"
         /\ Cardinality({groups[i].avg.v : i \in DefinedAvgs}) = 1 =>
              \A i \in DefinedAvgs : classified[i].prediction = "Heavy"

\* a call in which an average equals both Q1 and Q3 and is labelled Heavy,
\* while a lower one is Light
C26_Witness ==
  /\ pc = "done" /\ Cardinality(DefinedAvgs) >= 3
  /\ LET n == Cardinality(DefinedAvgs)
     IN  /\ OrderStatistic(n \div 4) = OrderStatistic((3 * n) \div 4)
         /\ \E i, j \in DefinedAvgs :
               /\ groups[i].avg.v = OrderStatistic(n \div 4)
               /\ groups[j].avg.v < groups[i].avg.v
               /\ classified[i].prediction = "Heavy"
               /\ classified[j].prediction = "Light"

\* the labels of routes with an average, by severity
Severity(label) ==
  CASE label = "Light" -> 1 [] label = "Moderate" -> 2 [] label = "Heavy" -> 3 [] OTHER -> 0

\* C30: within one call of simplePredictor, a route with a lower or equal
\* average never has a more severe label (Light < Moderate < Heavy) than a
\* route with a higher one, and every route with the largest average is Heavy.
C30_LabelsMonotoneInAverage ==
  pc = "done" =>
     /\ \A i, j \in DefinedAvgs :
          groups[i].avg.v <= groups[j].avg.v =>
             /\ Severity(classified[i].prediction) >= 1
             /\ Severity(classified[i].prediction) <= Severity(classified[j].prediction)
     /\ \A i \in DefinedAvgs :
          (\A j \in DefinedAvgs : groups[j].avg.v <= groups[i].avg.v) =>
             classified[i].prediction = "Heavy"

\* a call whose routes got the three labels Light, Moderate and Heavy
C30_Witness ==
  /\ pc = "done"
  /\ \E i, j, k \in DefinedAvgs :
        /\ groups[i].avg.v < groups[j].avg.v /\ groups[j].avg.v < groups[k].avg.v
        /\ classified[i].prediction = "Light"
        /\ classified[j].prediction = "Moderate"
        /\ classified[k].prediction = "Heavy"

\* what the data-computation effect makes of rows and a mapping
ViewsOf(rs, cols) ==
  LET st == IF Degenerate(rs, cols) THEN <<>> ELSE stats(rs, cols.routeCol, cols.valueCol)
  IN  [statsByRoute |-> st,
       predictions  |-> IF Degenerate(rs, cols) THEN <<>> ELSE simplePredictor(st),
       topRoutes    |-> topOf(st),
       series       |-> IF Len(rs) = 0 \/ cols.timeCol = "" \/ cols.valueCol = "" THEN <<>>
                        ELSE seriesData(rs, cols.timeCol, cols.valueCol)]

\* C27: the stages of one ingestion run in order.  When a parse completes, the
\* rows, the columns and the auto-detected mapping of that batch are stored
\* together and no view is computed yet; the effect that follows computes the
\* route aggregates and the time series from the rows of the last batch and a
\* mapping over the columns of that same batch, the predictions and the top
\* routes from those aggregates, and the prediction distribution (when it
\* computes one) from those predictions.
C27_StagesInOrder ==
  [][/\ lastOp' = "parseComplete" =>
          /\ rows' = lastBatch'.data /\ columns' = lastBatch'.fields
          /\ selectedCols' = autoDetect(lastBatch'.fields)
          /\ effectPending'
          /\ UNCHANGED <<statsByRoute, predictions, topRoutes, predGroups, series>>
     /\ lastOp' = "dataEffect" =>
          /\ rows = lastBatch.data
          /\ \A k \in MappingKeys : selectedCols[k] \in Range(lastBatch.fields) \cup {""}
          /\ LET v == ViewsOf(lastBatch.data, selectedCols)
             IN  /\ statsByRoute' = v.statsByRoute /\ series' = v.series
                 /\ predictions' = (IF statsByRoute' = <<>> THEN <<>>
                                    ELSE simplePredictor(statsByRoute'))
                 /\ topRoutes' = topOf(statsByRoute')
                 /\ (predGroups' # predGroups \/ ~Degenerate(rows, selectedCols))
                       => predGroups' = predGroupsOf(predictions')
                 /\ Range(recommended(topRoutes')) \subseteq
                       {statsByRoute'[i].route : i \in DOMAIN statsByRoute'}
  ]_vars

\* a second batch with another header than the first has been ingested and its
\* views are computed
C27_Witness ==
  /\ lastOp = "dataEffect" /\ lastBatch.n >= 2
  /\ Len(lastBatch.prev) > 0 /\ DOMAIN lastBatch.prev[1] # Range(lastBatch.fields)
  /\ Len(statsByRoute) > 0 /\ Len(predictions) > 0 /\ Len(series) > 0

\* C28: a manual override changes only the chosen mapping entry and leaves the
\* other entries, the rows and the columns alone; the effect that follows
\* recomputes every derived view (route aggregates, predictions, top routes,
\* prediction distribution, time series) from the unchanged rows and the new
\* mapping.
C28_OverrideIsLocal ==
  [][/\ lastOp' = "onSelect" =>
          /\ \E k \in MappingKeys : selectedCols' = [selectedCols EXCEPT ![k] = selectedCols'[k]]
          /\ UNCHANGED <<rows, columns>>
     /\ (lastOp = "onSelect" /\ lastOp' = "dataEffect") =>
          LET v == ViewsOf(rows, selectedCols)
          IN  /\ UNCHANGED <<rows, columns, selectedCols>>
              /\ statsByRoute' = v.statsByRoute /\ predictions' = v.predictions
              /\ topRoutes' = v.topRoutes /\ series' = v.series
              /\ IF Degenerate(rows, selectedCols) THEN AllZero(predGroups')
                 ELSE predGroups' = predGroupsOf(v.predictions)
  ]_vars

\* C29: between two clears no import into AdminDashboard lowers the count of
\* a route bucket or makes a bucket disappear, also when the row cap is
\* reached.
C29_BucketsOnlyGrow ==
  [][lastOp' = "importLarge" =>
       \A route \in LargeRoutes :
          routeCount(adminRuns', route) >= routeCount(adminRuns, route)
  ]_vars

====
